---- MODULE Spec2Model ----
\* Write-ahead-log engine of src/main.py: the journal file, the three
\* operation kinds writing Begin/Read/Write/Commit lines to it, the balance
\* query, the idempotency check and the truncate-and-replay recovery.
\*
\* Text is modelled at character level: a Python str is a sequence of
\* one-character strings, a file is the sequence of its lines, each line
\* keeping its terminating "\n" (what readlines() returns).
EXTENDS Integers, Sequences, FiniteSets, TLC

\* ---------------------------------------------------------------- bounds
\* handle() calls the caller makes, and process stops, in one behaviour
MaxOps == 2
MaxCrashes == 2
\* handle() calls the caller makes in a behaviour of the fair specification
LiveMaxOps == 1

\* -------------------------------------------------------------- literals
BEGIN == <<"B", "E", "G", "I", "N">>
WRITE == <<"W", "R", "I", "T", "E">>
READ == <<"R", "E", "A", "D">>
COMMIT == <<"C", "O", "M", "M", "I", "T">>
ERROR == <<"E", "R", "R", "O", "R">>
MOVE == <<"m", "o", "v">>
WITHDRAW == <<"w", "i", "t">>
DEPOSIT == <<"d", "e", "p">>
ID_SEPARATOR == <<"_">>
NEWLINE == <<"\n">>

\* ------------------------------------------------- Python str primitives
DigitChars == <<"0", "1", "2", "3", "4", "5", "6", "7", "8", "9">>

IsSpace(c) == c \in {" ", "\n", "\t", "\r"}

\* s.startswith(p)
startswith(s, p) == Len(s) >= Len(p) /\ SubSeq(s, 1, Len(p)) = p

\* p in s
contains(s, p) ==
    \E i \in 0..(Len(s) - Len(p)) : SubSeq(s, i + 1, i + Len(p)) = p

RECURSIVE lstrip(_)
lstrip(s) == IF s # <<>> /\ IsSpace(Head(s)) THEN lstrip(Tail(s)) ELSE s

RECURSIVE rstrip(_)
rstrip(s) ==
    IF s # <<>> /\ IsSpace(s[Len(s)]) THEN rstrip(SubSeq(s, 1, Len(s) - 1)) ELSE s

\* s.strip()
strip(s) == rstrip(lstrip(s))

RECURSIVE split_ws(_, _, _)
split_ws(s, cur, out) ==
    IF s = <<>> THEN (IF cur = <<>> THEN out ELSE Append(out, cur))
    ELSE IF IsSpace(Head(s))
         THEN split_ws(Tail(s), <<>>, IF cur = <<>> THEN out ELSE Append(out, cur))
         ELSE split_ws(Tail(s), Append(cur, Head(s)), out)

\* s.split(): runs of whitespace separate the tokens, no empty token
split(s) == split_ws(s, <<>>, <<>>)

RECURSIVE split_on(_, _, _, _)
split_on(s, c, cur, out) ==
    IF s = <<>> THEN Append(out, cur)
    ELSE IF Head(s) = c
         THEN split_on(Tail(s), c, <<>>, Append(out, cur))
         ELSE split_on(Tail(s), c, Append(cur, Head(s)), out)

\* s.split(sep) for a one-character sep: empty tokens are kept
split_sep(s, sep) == split_on(s, sep[1], <<>>, <<>>)

RECURSIVE join(_, _)
\* sep.join(parts)
join(sep, parts) ==
    IF parts = <<>> THEN <<>>
    ELSE IF Len(parts) = 1 THEN parts[1]
    ELSE parts[1] \o sep \o join(sep, Tail(parts))

RECURSIVE str_nat(_)
str_nat(n) ==
    IF n < 10 THEN <<DigitChars[n + 1]>>
    ELSE str_nat(n \div 10) \o <<DigitChars[(n % 10) + 1]>>

\* str(n) of an int
str(n) == IF n < 0 THEN <<"-">> \o str_nat(-n) ELSE str_nat(n)

IsDigit(c) == \E d \in 1..10 : DigitChars[d] = c

DigitVal(c) == (CHOOSE d \in 1..10 : DigitChars[d] = c) - 1

RECURSIVE int_nat(_, _)
int_nat(s, acc) ==
    IF s = <<>> THEN acc ELSE int_nat(Tail(s), 10 * acc + DigitVal(Head(s)))

\* int(s) accepts an optional sign and decimal digits (ValueError otherwise)
IsInt(s) ==
    LET body == IF s # <<>> /\ Head(s) \in {"-", "+"} THEN Tail(s) ELSE s
    IN  body # <<>> /\ \A i \in 1..Len(body) : IsDigit(body[i])

int(s) ==
    IF Head(s) = "-" THEN 0 - int_nat(Tail(s), 0)
    ELSE IF Head(s) = "+" THEN int_nat(Tail(s), 0)
    ELSE int_nat(s, 0)

RECURSIVE readlines_acc(_, _, _)
readlines_acc(text, cur, out) ==
    IF text = <<>> THEN (IF cur = <<>> THEN out ELSE Append(out, cur))
    ELSE IF Head(text) = "\n"
         THEN readlines_acc(Tail(text), <<>>, Append(out, Append(cur, "\n")))
         ELSE readlines_acc(Tail(text), Append(cur, Head(text)), out)

\* f.readlines() of a file holding `text`: the lines, terminators kept
readlines(text) == readlines_acc(text, <<>>, <<>>)

RECURSIVE writelines_from(_, _)
writelines_from(xs, i) ==
    IF i > Len(xs) THEN <<>> ELSE readlines(xs[i]) \o writelines_from(xs, i + 1)

\* the file f.writelines(xs) leaves when it was opened with "w": the lines
\* of the concatenation of xs. Every member of xs the program writes ends
\* with "\n", so the lines of the whole are the lines of the members in turn.
writelines(xs) == writelines_from(xs, 1)

\* ------------------------------------------------------ Python values
\* An argument that is an int at one call site and a str at another
\* (ts and amt: ints from the caller, strs from parse_op_from_id).
IntV(n) == [int |-> n]

StrV(s) == [str |-> s]

is_int(v) == "int" \in DOMAIN v

\* str(x)
py_str(v) == IF is_int(v) THEN str(v.int) ELSE v.str

\* int(x)
py_int(v) == IF is_int(v) THEN v.int ELSE int(v.str)

\* Python's None where a str is expected
None == <<"None">>

\* ------------------------------------------------------------ log lines
BeginLogLine(oid) == BEGIN \o <<" ">> \o oid \o NEWLINE

WriteLogLine(dst, amt) == WRITE \o <<" ">> \o dst \o <<" ">> \o str(amt) \o NEWLINE

ReadLogLine(dst, amt) == READ \o <<" ">> \o dst \o <<" ">> \o str(amt) \o NEWLINE

CommitLogLine(err) ==
    COMMIT \o (IF err = None THEN <<>> ELSE <<" ">> \o err) \o NEWLINE

\* f"{ERROR}: insufficient funds: {curr} < {self.amt}"
InsufficientFunds(c, amt) ==
    ERROR \o <<":", " ", "i", "n", "s", "u", "f", "f", "i", "c", "i", "e", "n", "t",
               " ", "f", "u", "n", "d", "s", ":", " ">>
          \o str(c) \o <<" ", "<", " ">> \o str(amt)

\* ----------------------------------------------------------- operations
MoveOp(ts, src, dst, amt) ==
    [cls |-> "MoveOp", ts |-> ts, src |-> src, dst |-> dst, amt |-> py_int(amt)]

WithdrawOp(ts, dst, amt) ==
    [cls |-> "WithdrawOp", ts |-> ts, dst |-> dst, amt |-> py_int(amt)]

DepositOp(ts, dst, amt) ==
    [cls |-> "DepositOp", ts |-> ts, dst |-> dst, amt |-> py_int(amt)]

MoveOp_id(self) ==
    join(ID_SEPARATOR, <<MOVE, py_str(self.ts), self.src, self.dst, str(self.amt)>>)

WithdrawOp_id(self) ==
    join(ID_SEPARATOR, <<WITHDRAW, py_str(self.ts), self.dst, str(self.amt)>>)

DepositOp_id(self) ==
    join(ID_SEPARATOR, <<DEPOSIT, py_str(self.ts), self.dst, str(self.amt)>>)

\* op.id(), dispatched on the class of op
id(self) ==
    CASE self.cls = "MoveOp" -> MoveOp_id(self)
      [] self.cls = "WithdrawOp" -> WithdrawOp_id(self)
      [] self.cls = "DepositOp" -> DepositOp_id(self)

\* no operation / the ValueError of parse_op_from_id
NoOp == [cls |-> "none"]

Raised == [cls |-> "raise"]

\* ------------------------------------------------------------ DataStore
\* DataStore.log: the text of one line appended to a file of whole lines
log(file, text) == file \o readlines(text)

RECURSIVE read_scan(_, _, _)
read_scan(file, i, dst) ==
    IF i = 0 THEN 0
    ELSE IF startswith(file[i], WRITE) /\ split(file[i])[2] = dst
         THEN int(split(file[i])[3])
         ELSE read_scan(file, i - 1, dst)

\* DataStore.read, scanning forward: the OLDEST write wins
read_first(file, dst) ==
    LET hits == {i \in 1..Len(file) :
                    startswith(file[i], WRITE) /\ split(file[i])[2] = dst}
    IN  IF hits = {} THEN 0
        ELSE int(split(file[CHOOSE i \in hits : \A j \in hits : i <= j])[3])

\* DataStore.read without the account test: the last WRITE line wins,
\* whichever account it names
read_any_account(file, dst) ==
    LET hits == {i \in 1..Len(file) : startswith(file[i], WRITE)}
    IN  IF hits = {} THEN 0
        ELSE int(split(file[CHOOSE i \in hits : \A j \in hits : j <= i])[3])

\* DataStore.read: the amount of the last WRITE line of the account, else 0
read(file, dst) == read_scan(file, Len(file), dst)

RECURSIVE already_committed_scan(_, _, _, _)
\* the loop of already_committed from line i on; the locals of one iteration
\* are bound by \E over a singleton, which gives each a value once
already_committed_scan(file, i, oid, found_begin_with_oid) ==
    IF i > Len(file) THEN FALSE
    ELSE \E line \in {strip(file[i])} :
         \E found \in {found_begin_with_oid \/ contains(line, oid)} :
         \E next \in {i + 1} :
             IF found /\ line = COMMIT THEN TRUE
             ELSE already_committed_scan(file, next, oid, found)

\* DataStore.already_committed answering True as soon as the id is found
already_committed_found(file, oid) ==
    \E i \in 1..Len(file) : contains(strip(file[i]), oid)

\* DataStore.already_committed with found_begin_with_oid holding for one
\* transaction only: the bare COMMIT must close the transaction the id was
\* found in
already_committed_same_txn(file, oid) ==
    \E i \in 1..Len(file) :
        /\ contains(strip(file[i]), oid)
        /\ \E j \in i..Len(file) :
              /\ strip(file[j]) = COMMIT
              /\ \A k \in (i + 1)..(j - 1) : ~startswith(file[k], BEGIN)

\* DataStore.already_committed, given op.id()
already_committed(file, oid) == already_committed_scan(file, 1, oid, FALSE)

\* DataStore.parse_op_from_id; a wrong operand count or a non-numeric amount
\* raises (TypeError / ValueError)
parse_op_from_id(oid) ==
    LET args == Tail(split_sep(oid, ID_SEPARATOR))
    IN  IF startswith(oid, MOVE)
        THEN IF Len(args) = 4 /\ IsInt(args[4])
             THEN MoveOp(StrV(args[1]), args[2], args[3], StrV(args[4]))
             ELSE Raised
        ELSE IF startswith(oid, WITHDRAW)
        THEN IF Len(args) = 3 /\ IsInt(args[3])
             THEN WithdrawOp(StrV(args[1]), args[2], StrV(args[3]))
             ELSE Raised
        ELSE IF startswith(oid, DEPOSIT)
        THEN IF Len(args) = 3 /\ IsInt(args[3])
             THEN DepositOp(StrV(args[1]), args[2], StrV(args[3]))
             ELSE Raised
        ELSE Raised

\* recover: 1-based index of the last line starting with BEGIN, 0 for None
find_last_begin(ls) ==
    LET hits == {i \in 1..Len(ls) : startswith(ls[i], BEGIN)}
    IN  IF hits = {} THEN 0 ELSE CHOOSE i \in hits : \A j \in hits : j <= i

\* recover without the truncation: every line is kept
truncate_nothing(ls, last_begin_idx) == ls

\* recover: lines[:last_begin_idx+1]
truncate(ls, last_begin_idx) == SubSeq(ls, 1, last_begin_idx)

\* recover: the file that writelines([line+NEWLINE for line in lines]) leaves
backup_content(ls) ==
    writelines([i \in 1..Len(ls) |-> ls[i] \o NEWLINE])

\* recover: lines[last_begin_idx].split()[1]
replay_oid(ls, last_begin_idx) == split(ls[last_begin_idx])[2]

\* recover calling op.handle() with the default write_begin
recover_write_begin_default == TRUE

\* recover: op.handle(write_begin=False)
recover_write_begin == FALSE

\* ------------------------------------- handle() run without interruption
\* Each takes the journal's lines and gives the lines the journal holds when
\* handle() returns.
MoveOp_handle(file, self, write_begin) ==
    IF already_committed(file, MoveOp_id(self)) THEN file
    ELSE LET f0 == IF write_begin THEN log(file, BeginLogLine(MoveOp_id(self))) ELSE file
             c1 == read(f0, self.src)
             f1 == log(f0, ReadLogLine(self.src, c1))
         IN  IF c1 < self.amt
             THEN log(f1, CommitLogLine(InsufficientFunds(c1, self.amt)))
             ELSE LET f2 == log(f1, WriteLogLine(self.src, c1 - self.amt))
                      c2 == read(f2, self.dst)
                      f3 == log(f2, ReadLogLine(self.dst, c2))
                      f4 == log(f3, WriteLogLine(self.dst, c2 + self.amt))
                  IN  log(f4, CommitLogLine(None))

WithdrawOp_handle(file, self, write_begin) ==
    IF already_committed(file, WithdrawOp_id(self)) THEN file
    ELSE LET f0 == IF write_begin THEN log(file, BeginLogLine(WithdrawOp_id(self))) ELSE file
             c1 == read(f0, self.dst)
             f1 == log(f0, ReadLogLine(self.dst, c1))
         IN  IF c1 < self.amt
             THEN log(f1, CommitLogLine(InsufficientFunds(c1, self.amt)))
             ELSE log(log(f1, WriteLogLine(self.dst, c1 - self.amt)), CommitLogLine(None))

DepositOp_handle(file, self, write_begin) ==
    IF already_committed(file, DepositOp_id(self)) THEN file
    ELSE LET f0 == IF write_begin THEN log(file, BeginLogLine(DepositOp_id(self))) ELSE file
             c1 == read(f0, self.dst)
             f1 == log(f0, ReadLogLine(self.dst, c1))
         IN  log(log(f1, WriteLogLine(self.dst, c1 + self.amt)), CommitLogLine(None))

\* op.handle(write_begin), dispatched on the class of op
handle(file, self, write_begin) ==
    CASE self.cls = "MoveOp" -> MoveOp_handle(file, self, write_begin)
      [] self.cls = "WithdrawOp" -> WithdrawOp_handle(file, self, write_begin)
      [] self.cls = "DepositOp" -> DepositOp_handle(file, self, write_begin)

\* DataStore.recover run without interruption on a journal holding `file`
recover(file) ==
    LET last_begin_idx == find_last_begin(file)
        ls == truncate(file, last_begin_idx)
        o == parse_op_from_id(replay_oid(ls, last_begin_idx))
    IN  IF last_begin_idx = 0 THEN file
        ELSE IF o.cls = "raise" THEN backup_content(ls)
        ELSE handle(backup_content(ls), o, recover_write_begin)

\* ------------------------------------------------------ the inputs
Accounts == {<<"A">>, <<"B">>}

Amounts == {5, 50}

Timestamps == {1}

\* <<source, destination>> of the moves: both directions and a self-move
MovePairs == {<<<<"A">>, <<"B">>>>, <<<<"B">>, <<"A">>>>, <<<<"A">>, <<"A">>>>}

\* the operations the caller constructs (ts and amt are ints there)
Ops ==
    {DepositOp(IntV(t), <<"A">>, IntV(n)) : t \in Timestamps, n \in Amounts}
    \cup {WithdrawOp(IntV(t), <<"A">>, IntV(n)) : t \in Timestamps, n \in Amounts}
    \cup {MoveOp(IntV(t), m[1], m[2], IntV(5)) : t \in Timestamps, m \in MovePairs}

\* ------------------------------------------------------------ the state
VARIABLES
    journal,        \* the lines of the file at DataStore.path
    backup,         \* the file at backup_path(): <<>> if absent, else <<lines>>
    pc,             \* where the process is: "idle" (between operations),
                    \* "down" (stopped, recover() not yet run), or inside
                    \* handle() / recover()
    op,             \* self of the handle() being run, NoOp otherwise
    curr,           \* handle's local curr
    lines,          \* recover's local lines (after the truncation)
    last_begin_idx, \* recover's local last_begin_idx (1-based, 0 for None)
    opsLeft,        \* handle() calls the caller may still make
    crashesLeft,    \* stops the process may still make
    lastOp,         \* history: the last operation whose handle() wrote a Begin
    pre,            \* history: the journal when that handle() was called
    crashJournal    \* history: <<the journal at the last stop>>, <<>> if the
                    \* process has not stopped since lastOp was called

vars == <<journal, backup, pc, op, curr, lines, last_begin_idx, opsLeft, crashesLeft,
          lastOp, pre, crashJournal>>

\* DataStore.__init__ on a path holding no file
Init ==
    /\ journal = <<>>
    /\ backup = <<>>
    /\ pc = "idle"
    /\ op = NoOp
    /\ curr = 0
    /\ lines = <<>>
    /\ last_begin_idx = 0
    /\ opsLeft = MaxOps
    /\ crashesLeft = MaxCrashes
    /\ lastOp = NoOp
    /\ pre = <<>>
    /\ crashJournal = <<>>

first_pc(self) ==
    CASE self.cls = "MoveOp" -> "mov_read_src"
      [] self.cls = "WithdrawOp" -> "wit_read"
      [] self.cls = "DepositOp" -> "dep_read"

\* handle() up to its first READ: the already_committed check and the Begin
handle_entry(self, write_begin) ==
    \E oid \in {id(self)} :
        IF already_committed(journal, oid)
        THEN /\ journal' = journal
             /\ pc' = "idle"
             /\ op' = NoOp
        ELSE /\ journal' = IF write_begin THEN log(journal, BeginLogLine(oid))
                           ELSE journal
             /\ pc' = first_pc(self)
             /\ op' = self

\* the caller's op.handle()
call(self) ==
    /\ pc = "idle"
    /\ opsLeft > 0
    /\ opsLeft' = opsLeft - 1
    /\ handle_entry(self, TRUE)
    /\ IF already_committed(journal, id(self))
       THEN UNCHANGED <<lastOp, pre, crashJournal>>
       ELSE lastOp' = self /\ pre' = journal /\ crashJournal' = <<>>
    /\ UNCHANGED <<backup, curr, lines, last_begin_idx, crashesLeft>>

MoveOp_call(self) == self.cls = "MoveOp" /\ call(self)

WithdrawOp_call(self) == self.cls = "WithdrawOp" /\ call(self)

DepositOp_call(self) == self.cls = "DepositOp" /\ call(self)

\* one append of handle(): the journal grows by `text`, control moves to `to`
append(text, to) ==
    /\ journal' = log(journal, text)
    /\ pc' = to
    /\ op' = IF to = "idle" THEN NoOp ELSE op
    /\ UNCHANGED <<backup, lines, last_begin_idx, opsLeft, crashesLeft, lastOp, pre,
                   crashJournal>>

MoveOp_read_src ==
    /\ pc = "mov_read_src"
    /\ curr' = read(journal, op.src)
    /\ append(ReadLogLine(op.src, curr'), "mov_check")

\* MoveOp.handle without the funds check
MoveOp_check_unchecked ==
    /\ pc = "mov_check"
    /\ append(WriteLogLine(op.src, curr - op.amt), "mov_read_dst")
    /\ UNCHANGED curr

MoveOp_check ==
    /\ pc = "mov_check"
    /\ IF curr < op.amt
       THEN append(CommitLogLine(InsufficientFunds(curr, op.amt)), "idle")
       ELSE append(WriteLogLine(op.src, curr - op.amt), "mov_read_dst")
    /\ UNCHANGED curr

\* MoveOp.handle reading the source a second time where it is to read the
\* destination
MoveOp_read_dst_of_src ==
    /\ pc = "mov_read_dst"
    /\ curr' = read(journal, op.src)
    /\ append(ReadLogLine(op.src, curr'), "mov_write_dst")

MoveOp_read_dst ==
    /\ pc = "mov_read_dst"
    /\ curr' = read(journal, op.dst)
    /\ append(ReadLogLine(op.dst, curr'), "mov_write_dst")

MoveOp_write_dst ==
    /\ pc = "mov_write_dst"
    /\ append(WriteLogLine(op.dst, curr + op.amt), "mov_commit")
    /\ UNCHANGED curr

MoveOp_commit ==
    /\ pc = "mov_commit"
    /\ append(CommitLogLine(None), "idle")
    /\ UNCHANGED curr

WithdrawOp_read ==
    /\ pc = "wit_read"
    /\ curr' = read(journal, op.dst)
    /\ append(ReadLogLine(op.dst, curr'), "wit_check")

\* WithdrawOp.handle without the funds check
WithdrawOp_check_unchecked ==
    /\ pc = "wit_check"
    /\ append(WriteLogLine(op.dst, curr - op.amt), "wit_commit")
    /\ UNCHANGED curr

WithdrawOp_check ==
    /\ pc = "wit_check"
    /\ IF curr < op.amt
       THEN append(CommitLogLine(InsufficientFunds(curr, op.amt)), "idle")
       ELSE append(WriteLogLine(op.dst, curr - op.amt), "wit_commit")
    /\ UNCHANGED curr

WithdrawOp_commit ==
    /\ pc = "wit_commit"
    /\ append(CommitLogLine(None), "idle")
    /\ UNCHANGED curr

DepositOp_read ==
    /\ pc = "dep_read"
    /\ curr' = read(journal, op.dst)
    /\ append(ReadLogLine(op.dst, curr'), "dep_write")

DepositOp_write ==
    /\ pc = "dep_write"
    /\ append(WriteLogLine(op.dst, curr + op.amt), "dep_commit")
    /\ UNCHANGED curr

DepositOp_commit ==
    /\ pc = "dep_commit"
    /\ append(CommitLogLine(None), "idle")
    /\ UNCHANGED curr

\* recover() without the return on last_begin_idx == None: the backup is
\* written and moved whether or not a Begin was found
recover_backup_always ==
    /\ pc = "down"
    /\ \E idx \in {find_last_begin(journal)} :
       \E ls \in {truncate(journal, idx)} :
          /\ last_begin_idx' = idx
          /\ pc' = "rec_move"
          /\ lines' = ls
          /\ backup' = <<backup_content(ls)>>
    /\ UNCHANGED <<journal, op, curr, opsLeft, crashesLeft, lastOp, pre, crashJournal>>

\* recover() at restart, up to the backup file being written
recover_backup ==
    /\ pc = "down"
    /\ \E idx \in {find_last_begin(journal)} :
          /\ last_begin_idx' = idx
          /\ IF idx = 0
             THEN /\ pc' = "idle"
                  /\ lines' = <<>>
                  /\ UNCHANGED backup
             ELSE \E ls \in {truncate(journal, idx)} :
                      /\ pc' = "rec_move"
                      /\ lines' = ls
                      /\ backup' = <<backup_content(ls)>>
    /\ UNCHANGED <<journal, op, curr, opsLeft, crashesLeft, lastOp, pre, crashJournal>>

\* recover() rewriting the journal in place instead of moving the backup over
\* it: the journal is emptied (opened with "w") in one step, filled in the next
recover_move_in_place ==
    /\ pc = "rec_move"
    /\ IF journal # <<>>
       THEN journal' = <<>> /\ UNCHANGED <<backup, pc>>
       ELSE journal' = backup[1] /\ backup' = <<>> /\ pc' = "rec_replay"
    /\ UNCHANGED <<op, curr, lines, last_begin_idx, opsLeft, crashesLeft, lastOp, pre,
                   crashJournal>>

\* recover(): shutil.move(self.backup_path(), self.path)
recover_move ==
    /\ pc = "rec_move"
    /\ journal' = backup[1]
    /\ backup' = <<>>
    /\ pc' = "rec_replay"
    /\ UNCHANGED <<op, curr, lines, last_begin_idx, opsLeft, crashesLeft, lastOp, pre,
                   crashJournal>>

\* recover(): the retained Begin is parsed and its operation handled
recover_replay ==
    /\ pc = "rec_replay"
    /\ \E oid \in {replay_oid(lines, last_begin_idx)} :
       \E o \in {parse_op_from_id(oid)} :
           IF o.cls = "raise"
           THEN pc' = "raised" /\ UNCHANGED <<journal, op>>
           ELSE handle_entry(o, recover_write_begin)
    /\ UNCHANGED <<backup, curr, lines, last_begin_idx, opsLeft, crashesLeft, lastOp,
                   pre, crashJournal>>

\* the process stops (between two appends, or between two operations) and is
\* started again: its locals are lost, the files stay
Crash ==
    /\ pc \notin {"down", "raised"}
    /\ crashesLeft > 0
    /\ crashesLeft' = crashesLeft - 1
    /\ pc' = "down"
    /\ op' = NoOp
    /\ curr' = 0
    /\ lines' = <<>>
    /\ last_begin_idx' = 0
    /\ crashJournal' = <<journal>>
    /\ UNCHANGED <<journal, backup, opsLeft, lastOp, pre>>

\* the process stops inside recover() while the backup file is being written
\* (it was opened with "w" and holds some of the lines) and is started again:
\* the journal has not been touched. The next recover() opens the backup
\* with "w" again and never reads it, so two cuts stand for all: none of the
\* lines written, all but the last written
Crash_writing_backup ==
    /\ pc = "down"
    /\ crashesLeft > 0
    /\ find_last_begin(journal) > 0
    /\ crashesLeft' = crashesLeft - 1
    /\ \E content \in {backup_content(truncate(journal, find_last_begin(journal)))} :
       \E k \in {0, Len(content) - 1} :
           backup' = <<SubSeq(content, 1, k)>>
    /\ crashJournal' = <<journal>>
    /\ UNCHANGED <<journal, pc, op, curr, lines, last_begin_idx, opsLeft, lastOp, pre>>

Next ==
    \/ \E self \in Ops : MoveOp_call(self)
    \/ \E self \in Ops : WithdrawOp_call(self)
    \/ \E self \in Ops : DepositOp_call(self)
    \/ MoveOp_read_src
    \/ MoveOp_check
    \/ MoveOp_read_dst
    \/ MoveOp_write_dst
    \/ MoveOp_commit
    \/ WithdrawOp_read
    \/ WithdrawOp_check
    \/ WithdrawOp_commit
    \/ DepositOp_read
    \/ DepositOp_write
    \/ DepositOp_commit
    \/ recover_backup
    \/ recover_move
    \/ recover_replay
    \/ Crash
    \/ Crash_writing_backup

Spec == Init /\ [][Next]_vars

\* the steps the process takes by itself: the appends of handle() and the
\* steps of recover(), which restart runs after every stop
Run ==
    \/ MoveOp_read_src
    \/ MoveOp_check
    \/ MoveOp_read_dst
    \/ MoveOp_write_dst
    \/ MoveOp_commit
    \/ WithdrawOp_read
    \/ WithdrawOp_check
    \/ WithdrawOp_commit
    \/ DepositOp_read
    \/ DepositOp_write
    \/ DepositOp_commit
    \/ recover_backup
    \/ recover_move
    \/ recover_replay

\* single-threaded and synchronous: a process that is up takes its next step
\* DataStore.__init__ on a path that holds the journal of an earlier run: one
\* committed deposit of 50 to A
LiveInit ==
    /\ journal = DepositOp_handle(<<>>, DepositOp(IntV(1), <<"A">>, IntV(50)), TRUE)
    /\ backup = <<>>
    /\ pc = "idle"
    /\ op = NoOp
    /\ curr = 0
    /\ lines = <<>>
    /\ last_begin_idx = 0
    /\ opsLeft = LiveMaxOps
    /\ crashesLeft = MaxCrashes
    /\ lastOp = NoOp
    /\ pre = <<>>
    /\ crashJournal = <<>>

LiveSpec == LiveInit /\ [][Next]_vars /\ WF_vars(Run)

\* DataStore.__init__ on a path that holds the journal of an earlier run: a
\* withdrawal of 5 from A closed for insufficient funds, a committed deposit
\* of 50 to A (made at an earlier timestamp than the caller's operations
\* carry), a move of 5 from B to A closed for insufficient funds
RetryInit ==
    /\ journal =
          MoveOp_handle(
              DepositOp_handle(
                  WithdrawOp_handle(<<>>, WithdrawOp(IntV(1), <<"A">>, IntV(5)), TRUE),
                  DepositOp(IntV(0), <<"A">>, IntV(50)), TRUE),
              MoveOp(IntV(1), <<"B">>, <<"A">>, IntV(5)), TRUE)
    /\ backup = <<>>
    /\ pc = "idle"
    /\ op = NoOp
    /\ curr = 0
    /\ lines = <<>>
    /\ last_begin_idx = 0
    /\ opsLeft = LiveMaxOps
    /\ crashesLeft = MaxCrashes
    /\ lastOp = NoOp
    /\ pre = <<>>
    /\ crashJournal = <<>>

RetrySpec == RetryInit /\ [][Next]_vars

\* the operations of a caller whose account names may hold the id separator
WideOps ==
    Ops \cup {DepositOp(IntV(1), <<"a", "_", "b">>, IntV(5)),
              MoveOp(IntV(1), <<"A">>, <<"a", "_", "b">>, IntV(5))}

WideNext ==
    \/ \E self \in WideOps : MoveOp_call(self)
    \/ \E self \in WideOps : WithdrawOp_call(self)
    \/ \E self \in WideOps : DepositOp_call(self)
    \/ Run
    \/ Crash
    \/ Crash_writing_backup

\* the process started on the journal of an earlier run, the caller naming
\* accounts freely
WideSpec == LiveInit /\ [][WideNext]_vars

\* ------------------------------------------------- reading the journal
IsBegin(line) == startswith(line, BEGIN)

IsWrite(line) == startswith(line, WRITE)

\* a Commit record, bare or with an error message
IsCommit(line) == startswith(line, COMMIT)

IsErrorCommit(line) == IsCommit(line) /\ strip(line) # COMMIT

\* the Begin/Read/Write/Commit records of a file: its non-blank lines
Records(file) == SelectSeq(file, LAMBDA line : strip(line) # <<>>)

\* the last transaction of the file is open: no Commit follows the last Begin
OpenAtTail(file) ==
    /\ find_last_begin(file) > 0
    /\ \A i \in (find_last_begin(file) + 1)..Len(file) : ~IsCommit(file[i])

\* the last transaction of the file is closed: its last record is a Commit
ClosedAtTail(file) ==
    /\ Records(file) # <<>>
    /\ IsCommit(Records(file)[Len(Records(file))])

\* the file cut immediately after its last Begin
CutAtBegin(file) == SubSeq(file, 1, find_last_begin(file))

\* the file holds a transaction begun with exactly this id and closed by a
\* Commit (bare or error)
ClosedTxnOf(file, oid) ==
    \E i \in 1..Len(file) :
        /\ IsBegin(file[i])
        /\ split(file[i])[2] = oid
        /\ \E j \in (i + 1)..Len(file) :
              /\ IsCommit(file[j])
              /\ \A k \in (i + 1)..(j - 1) : ~IsBegin(file[k])

\* the account an operation takes funds from
Debited(self) == IF self.cls = "MoveOp" THEN self.src ELSE self.dst

\* what a successfully committed operation adds to an account
Effect(self, a) ==
    CASE self.cls = "DepositOp" -> IF self.dst = a THEN self.amt ELSE 0
      [] self.cls = "WithdrawOp" -> IF self.dst = a THEN 0 - self.amt ELSE 0
      [] self.cls = "MoveOp" ->
            (IF self.dst = a THEN self.amt ELSE 0) - (IF self.src = a THEN self.amt ELSE 0)
      [] OTHER -> 0

RECURSIVE LedgerScan(_, _, _, _, _)
LedgerScan(file, i, a, open, sum) ==
    IF i > Len(file) THEN sum
    ELSE IF IsBegin(file[i])
         THEN LedgerScan(file, i + 1, a, parse_op_from_id(split(file[i])[2]), sum)
    ELSE IF strip(file[i]) = COMMIT
         THEN LedgerScan(file, i + 1, a, NoOp, sum + Effect(open, a))
    ELSE IF IsCommit(file[i])
         THEN LedgerScan(file, i + 1, a, NoOp, sum)
    ELSE LedgerScan(file, i + 1, a, open, sum)

\* the sum of the signed amounts of the transactions closed by a bare Commit
Ledger(file, a) == LedgerScan(file, 1, a, NoOp, 0)

\* a recover() has run to its end since the process last stopped
Recovered == pc = "idle" /\ crashJournal # <<>>

\* ---------------------------------------------------------------- claims

\* C1 (as claimed): a handle() call for an id whose transaction the journal
\* already holds closed, by a success Commit or by an error Commit, appends
\* nothing: the journal after the call is the journal before it.
C1_SecondCallAppendsNothing ==
    [][\A self \in Ops :
          (call(self) /\ ClosedTxnOf(journal, id(self))) => journal' = journal]_vars

\* C2: after a stop that left the last transaction open (any point after its
\* Begin) and a recover(), every account reads what it reads after the
\* operation's handle() run without interruption on the journal it was
\* called on.
C2_ExactlyOnce ==
    (Recovered /\ OpenAtTail(crashJournal[1]) /\ lastOp.cls # "none") =>
        \A a \in Accounts : read(journal, a) = read(handle(pre, lastOp, TRUE), a)

\* C2 witness: a Move was stopped between its source Write and its destination
\* Write, recovery has run, and the destination has received the funds.
C2_Witness ==
    /\ Recovered
    /\ OpenAtTail(crashJournal[1])
    /\ lastOp.cls = "MoveOp"
    /\ lastOp.src # lastOp.dst
    /\ IsWrite(crashJournal[1][Len(crashJournal[1])])
    /\ split(crashJournal[1][Len(crashJournal[1])])[2] = lastOp.src
    /\ read(journal, lastOp.dst) = read(pre, lastOp.dst) + lastOp.amt

\* C3: the journal recover() leaves after a stop inside a transaction is the
\* journal recover() makes of the same file cut immediately after its last
\* Begin, whichever records followed that Begin.
C3_CutEquivalence ==
    (Recovered /\ OpenAtTail(crashJournal[1])) =>
        journal = recover(CutAtBegin(crashJournal[1]))

\* C3 witness: the stop came at least two records after the Begin.
C3_Witness ==
    /\ Recovered
    /\ OpenAtTail(crashJournal[1])
    /\ Len(crashJournal[1]) >= find_last_begin(crashJournal[1]) + 2
    /\ IsCommit(journal[Len(journal)])

\* C4: between operations every account reads the sum of the signed amounts
\* of the transactions closed by a bare Commit.
C4_BalanceIsLedger ==
    pc = "idle" => \A a \in Accounts : read(journal, a) = Ledger(journal, a)

\* C4 witness: a success and an insufficient-funds failure are both in the
\* journal and an account holds funds.
C4_Witness ==
    /\ pc = "idle"
    /\ \E i \in 1..Len(journal) : IsErrorCommit(journal[i])
    /\ \E i \in 1..Len(journal) : strip(journal[i]) = COMMIT
    /\ \E a \in Accounts : read(journal, a) > 0

\* C5: a Withdraw or Move handled (without a stop) while the debited account
\* holds less than the amount appends no Write, leaves every account's read()
\* as it was and ends with a Commit carrying an error message.
C5_InsufficientFunds ==
    (/\ pc = "idle"
     /\ crashJournal = <<>>
     /\ lastOp.cls \in {"MoveOp", "WithdrawOp"}
     /\ read(pre, Debited(lastOp)) < lastOp.amt) =>
        /\ Len(journal) > Len(pre)
        /\ SubSeq(journal, 1, Len(pre)) = pre
        /\ \A i \in (Len(pre) + 1)..Len(journal) : ~IsWrite(journal[i])
        /\ \A a \in Accounts : read(journal, a) = read(pre, a)
        /\ IsErrorCommit(journal[Len(journal)])

\* C5 witness: the debited account held funds, but fewer than asked for.
C5_Witness ==
    /\ pc = "idle"
    /\ crashJournal = <<>>
    /\ lastOp.cls \in {"MoveOp", "WithdrawOp"}
    /\ read(pre, Debited(lastOp)) > 0
    /\ read(pre, Debited(lastOp)) < lastOp.amt
    /\ IsErrorCommit(journal[Len(journal)])

\* C6: between any Begin record and the next Begin record of the journal
\* there is a Commit record: only the last transaction can be open.
C6_SingleOpenTransaction ==
    \A i \in 1..Len(journal) : \A j \in (i + 1)..Len(journal) :
        (IsBegin(journal[i]) /\ IsBegin(journal[j])) =>
            \E k \in (i + 1)..(j - 1) : IsCommit(journal[k])

\* C6 witness: a second transaction is open after the process has stopped
\* and recovered.
C6_Witness ==
    /\ crashesLeft < MaxCrashes
    /\ OpenAtTail(journal)
    /\ \E i \in 1..(find_last_begin(journal) - 1) : IsBegin(journal[i])

\* C7 (as claimed): what recover() moves over the journal is exactly the
\* lines the journal held up to and including its last Begin, no line added.
C7_InstalledIsPrefix ==
    pc = "rec_replay" => journal = CutAtBegin(crashJournal[1])

\* C8 (as claimed): already_committed answers true only for an id that a
\* Begin record of the journal carries exactly and whose transaction is closed.
C8_NoFalsePositive ==
    \A self \in Ops :
        already_committed(journal, id(self)) => ClosedTxnOf(journal, id(self))

\* C9: recover() on a journal whose last transaction is closed leaves the
\* same records in the same order and the same read() of every account.
C9_RecoverClosedKeepsRecords ==
    (Recovered /\ ClosedAtTail(crashJournal[1])) =>
        /\ Records(journal) = Records(crashJournal[1])
        /\ \A a \in Accounts : read(journal, a) = read(crashJournal[1], a)

\* C9 witness: recover() did rewrite the file of a closed journal (the file
\* differs) and one of its transactions was closed by an error Commit.
C9_Witness ==
    /\ Recovered
    /\ ClosedAtTail(crashJournal[1])
    /\ journal # crashJournal[1]
    /\ \E i \in 1..Len(journal) : IsErrorCommit(journal[i])
    /\ \E i \in 1..Len(journal) : IsWrite(journal[i])

\* C10: a recover() that has run to its end on a journal holding a Begin
\* leaves a Commit as the last record; and with finitely many stops, a
\* process that stopped inside a transaction eventually sits between
\* operations with that transaction closed.
C10_RecoverCloses ==
    /\ []((Recovered /\ find_last_begin(crashJournal[1]) > 0) =>
            (IsCommit(journal[Len(journal)]) /\ ~OpenAtTail(journal)))
    /\ ((pc = "down" /\ OpenAtTail(journal)) ~> (pc = "idle" /\ ClosedAtTail(journal)))

\* C10 witness: the process stopped twice, the second time inside the replay,
\* and the transaction is closed.
C10_Witness ==
    /\ Recovered
    /\ crashesLeft = 0
    /\ OpenAtTail(crashJournal[1])
    /\ crashJournal[1] # CutAtBegin(crashJournal[1])
    /\ \E i \in 1..Len(crashJournal[1]) : strip(crashJournal[1][i]) = <<>>
    /\ IsCommit(journal[Len(journal)])

IsPrefixOf(xs, ys) == Len(xs) <= Len(ys) /\ xs = SubSeq(ys, 1, Len(xs))

\* a recover() is being run, or has run to its end, since the process last
\* stopped: control is in recover(), in the handle() it calls, or back between
\* operations
InRecover == crashJournal # <<>> /\ pc # "down"

\* C11: at every point of a recover() run on a journal holding a Begin (so
\* wherever a stop may strike it: before the move, between the move and the
\* replay, after any append of the replay) the journal is either the whole
\* pre-recovery file, or the truncated file (the records up to the last
\* Begin) followed by a prefix of what the uninterrupted recover() leaves
\* after them; and a recover() run on the journal as it stands gives every
\* account the read() that the uninterrupted recover() of the pre-recovery
\* file gives.
C11_CrashInRecoverIsSafe ==
    (InRecover /\ find_last_begin(crashJournal[1]) > 0) =>
        \/ journal = crashJournal[1]
        \/ \E full \in {recover(crashJournal[1])} :
              /\ IsPrefixOf(journal, full)
              /\ IsPrefixOf(Records(CutAtBegin(crashJournal[1])), Records(journal))
              /\ \E again \in {recover(journal)} :
                    \A a \in Accounts : read(again, a) = read(full, a)

\* C11 witness: the process stopped inside a transaction, then stopped again
\* inside recover() between the move and the replay (the journal it left ends
\* with the retained Begin and the blank line recover() writes after it), and
\* the next recover() has closed the transaction with a Write.
C11_Witness ==
    /\ Recovered
    /\ crashesLeft <= MaxCrashes - 2
    /\ Len(crashJournal[1]) >= 2
    /\ strip(crashJournal[1][Len(crashJournal[1])]) = <<>>
    /\ IsBegin(crashJournal[1][Len(crashJournal[1]) - 1])
    /\ IsWrite(journal[Len(journal) - 1])
    /\ strip(journal[Len(journal)]) = COMMIT

\* what a record is: its keyword and its account (Read, Write), its id (Begin)
\* or, for a Commit carrying a message, the first word of the message
Shape(line) ==
    IF strip(line) = COMMIT THEN <<COMMIT>> ELSE <<split(line)[1], split(line)[2]>>

Shapes(file) == [i \in 1..Len(file) |-> Shape(file[i])]

\* the records a successful Move is to append, in order
MoveDone(self) ==
    <<  <<BEGIN, MoveOp_id(self)>>, <<READ, self.src>>, <<WRITE, self.src>>,
        <<READ, self.dst>>, <<WRITE, self.dst>>, <<COMMIT>>  >>

\* the records a Move with insufficient funds is to append, in order
MoveFailed(self) ==
    <<  <<BEGIN, MoveOp_id(self)>>, <<READ, self.src>>, <<COMMIT, ERROR \o <<":">>>>  >>

\* the records of the last transaction of the file, its Begin included
TailRecords(file) == Records(SubSeq(file, find_last_begin(file), Len(file)))

\* the last transaction of the file is a Move's
MoveAtTail(file) ==
    /\ find_last_begin(file) > 0
    /\ startswith(split(file[find_last_begin(file)])[2], MOVE)

\* C12: a Move handled without a stop on an account holding the amount
\* appends exactly Begin, Read(source), Write(source), Read(destination),
\* Write(destination), Commit, in that order; on an account holding less it
\* appends exactly Begin, Read(source), Commit(error). At every point (mid-
\* transaction, after a stop, in the replay) the records of a Move's
\* transaction are a prefix of one of these two orders, so no Write precedes
\* the source Read and check, and the destination Read and Write follow the
\* source Write.
C12_MoveRecordOrder ==
    /\ MoveAtTail(journal) =>
          \E self \in {parse_op_from_id(split(journal[find_last_begin(journal)])[2])} :
          \E got \in {Shapes(TailRecords(journal))} :
              IsPrefixOf(got, MoveDone(self)) \/ IsPrefixOf(got, MoveFailed(self))
    /\ (pc = "idle" /\ crashJournal = <<>> /\ lastOp.cls = "MoveOp") =>
          /\ IsPrefixOf(pre, journal)
          /\ Shapes(SubSeq(journal, Len(pre) + 1, Len(journal)))
                = IF read(pre, lastOp.src) < lastOp.amt
                  THEN MoveFailed(lastOp) ELSE MoveDone(lastOp)

\* C12 witness: a Move between two different accounts has run to its success
\* Commit without a stop: six records were appended and the destination holds
\* the amount.
C12_Witness ==
    /\ pc = "idle"
    /\ crashJournal = <<>>
    /\ lastOp.cls = "MoveOp"
    /\ lastOp.src # lastOp.dst
    /\ Len(journal) = Len(pre) + 6
    /\ strip(journal[Len(journal)]) = COMMIT
    /\ read(journal, lastOp.dst) = read(pre, lastOp.dst) + lastOp.amt

IsRead(line) == startswith(line, READ)

\* how many Begin records the file holds
CountBegin(file) == Cardinality({i \in 1..Len(file) : IsBegin(file[i])})

\* C13: at every point of a recover(), and when it has returned, the journal
\* holds as many Begin records as the file recover() was run on; when it has
\* returned, the records up to the last Begin are those the file held up to
\* its last Begin, and that Begin is followed by Read and Write records and
\* one closing Commit, no Begin among them.
C13_RecoverKeepsOneBegin ==
    /\ InRecover => CountBegin(journal) = CountBegin(crashJournal[1])
    /\ (Recovered /\ find_last_begin(crashJournal[1]) > 0) =>
          \E b \in {find_last_begin(journal)} :
          \E tail \in {Records(SubSeq(journal, b + 1, Len(journal)))} :
              /\ Records(SubSeq(journal, 1, b)) = Records(CutAtBegin(crashJournal[1]))
              /\ tail # <<>>
              /\ \A i \in 1..(Len(tail) - 1) : IsRead(tail[i]) \/ IsWrite(tail[i])
              /\ IsCommit(tail[Len(tail)])

\* C13 witness: the process stopped right after the Begin of a second
\* transaction, and recover() has replayed it to a success Commit.
C13_Witness ==
    /\ Recovered
    /\ crashJournal[1] # <<>>
    /\ IsBegin(crashJournal[1][Len(crashJournal[1])])
    /\ CountBegin(crashJournal[1]) = 2
    /\ CountBegin(journal) = 2
    /\ IsWrite(journal[Len(journal) - 1])
    /\ strip(journal[Len(journal)]) = COMMIT

\* C14: a recover() run on a journal holding no Begin record returns at once:
\* control is back between operations, the journal is the file it was, no
\* backup file exists (none was written, none was moved) and no operation is
\* being handled.
C14_RecoverWithoutBeginDoesNothing ==
    (InRecover /\ find_last_begin(crashJournal[1]) = 0) =>
        /\ pc = "idle"
        /\ journal = crashJournal[1]
        /\ backup = <<>>
        /\ op = NoOp
        /\ lines = <<>>

\* C14 witness: the process stopped on a journal without a Begin and
\* recover() has returned.
C14_Witness ==
    /\ Recovered
    /\ find_last_begin(crashJournal[1]) = 0
    /\ crashesLeft < MaxCrashes
    /\ journal = crashJournal[1]
    /\ last_begin_idx = 0

\* where the file holds a Write record of account a
WritesOf(file, a) == {i \in 1..Len(file) : IsWrite(file[i]) /\ split(file[i])[2] = a}

\* the amount of the last Write record of account a, 0 if there is none
LastWriteAmount(file, a) ==
    IF WritesOf(file, a) = {} THEN 0
    ELSE int(split(file[CHOOSE i \in WritesOf(file, a) :
                           \A j \in WritesOf(file, a) : j <= i])[3])

\* the file without its Read records and without the Write records of the
\* accounts other than a
WithoutOthers(file, a) ==
    SelectSeq(file, LAMBDA line :
        /\ ~IsRead(line)
        /\ IsWrite(line) => split(line)[2] = a)

\* C15: in every reachable journal, the last transaction open or closed,
\* read(account) is the amount of the last Write record of the account, 0
\* when there is none, and it is what read(account) gives on the journal
\* with its Read records and the other accounts' Write records removed.
C15_ReadIsLastWrite ==
    \A a \in Accounts :
        /\ read(journal, a) = LastWriteAmount(journal, a)
        /\ read(journal, a) = read(WithoutOthers(journal, a), a)

\* C15 witness: a Move is open after its destination Write; the source reads
\* the amount of the uncommitted source Write although a Read record and a
\* Write record of the destination follow it.
C15_Witness ==
    /\ pc = "mov_commit"
    /\ crashJournal = <<>>
    /\ op.src # op.dst
    /\ OpenAtTail(journal)
    /\ IsWrite(journal[Len(journal)])
    /\ split(journal[Len(journal)])[2] = op.dst
    /\ read(pre, op.src) > 0
    /\ read(journal, op.src) = read(pre, op.src) - op.amt
    /\ read(journal, op.src) # read(journal, op.dst)

\* p is an operation of the kind of self with its timestamp, accounts and
\* amount, and so with its id
SameOp(p, self) ==
    /\ p.cls = self.cls
    /\ py_str(p.ts) = py_str(self.ts)
    /\ p.dst = self.dst
    /\ self.cls = "MoveOp" => p.src = self.src
    /\ p.amt = self.amt
    /\ id(p) = id(self)

\* C16 (as claimed): parse_op_from_id(op.id()) is an operation of the kind
\* of op with its timestamp, accounts and amount, for every operation being
\* handled; and the operation recover() parses from the retained Begin is the
\* operation whose handle() wrote that Begin.
C16_IdRoundTrip ==
    /\ op.cls \in {"MoveOp", "WithdrawOp", "DepositOp"} =>
          SameOp(parse_op_from_id(id(op)), op)
    /\ (pc = "rec_replay" /\ lastOp.cls # "none") =>
          SameOp(parse_op_from_id(replay_oid(lines, last_begin_idx)), lastOp)

\* the file holds a transaction begun with exactly this id and closed by a
\* Commit carrying an error message
ErrorClosedTxnOf(file, oid) ==
    \E i \in 1..Len(file) :
        /\ IsBegin(file[i])
        /\ split(file[i])[2] = oid
        /\ \E j \in (i + 1)..Len(file) :
              /\ IsErrorCommit(file[j])
              /\ \A k \in (i + 1)..(j - 1) : ~IsBegin(file[k]) /\ ~IsCommit(file[k])

\* the ids of the transactions of the file closed by an error Commit
FailedIds(file) ==
    {split(file[i])[2] : i \in {b \in 1..Len(file) :
        /\ IsBegin(file[b])
        /\ \E j \in (b + 1)..Len(file) :
              /\ IsCommit(file[j])
              /\ strip(file[j]) # COMMIT
              /\ \A k \in (b + 1)..(j - 1) : ~IsBegin(file[k]) /\ ~IsCommit(file[k])}}

\* no Write record among the records of `after` that follow those of `before`
NoWriteSince(before, after) ==
    \E rb \in {Records(before)} : \E ra \in {Records(after)} :
        /\ IsPrefixOf(rb, ra)
        /\ \A i \in (Len(rb) + 1)..Len(ra) : ~IsWrite(ra[i])

\* C17: between operations, whatever operations, stops and recoveries came
\* since, a handle() of an operation whose transaction an error Commit has
\* closed appends no Write and changes no account's read(), also when the
\* debited account now holds the amount; and while and after a handle() of
\* such an operation that did write a new Begin (stopped and replayed or
\* not), no Write has been appended and every read() is what it was at the
\* call.
C17_FailedStaysFailed ==
    /\ pc = "idle" =>
          \E failed \in {FailedIds(journal)} :
              \A self \in Ops :
                  id(self) \in failed =>
                      \E after \in {handle(journal, self, TRUE)} :
                          /\ NoWriteSince(journal, after)
                          /\ \A a \in Accounts : read(after, a) = read(journal, a)
    /\ (lastOp.cls # "none" /\ pc # "down" /\ id(lastOp) \in FailedIds(pre)) =>
          /\ NoWriteSince(pre, journal)
          /\ \A a \in Accounts : read(journal, a) = read(pre, a)

\* C17 witness: the journal holds a withdrawal from A closed by an error
\* Commit, A has since received the amount, the one call the caller makes
\* has been made and was skipped, and A still holds what it received.
C17_Witness ==
    /\ pc = "idle"
    /\ opsLeft = 0
    /\ lastOp.cls = "none"
    /\ \E self \in Ops :
          /\ self.cls = "WithdrawOp"
          /\ ErrorClosedTxnOf(journal, id(self))
          /\ read(journal, self.dst) >= self.amt
          /\ already_committed(journal, id(self))
          /\ read(journal, self.dst) = 50

\* C18: the amounts of the operations being positive, every account reads 0
\* or more in every reachable state: after every append, inside a
\* transaction, stopped, and at every step of recover() and of its replay.
C18_BalancesNeverNegative ==
    \A a \in Accounts : read(journal, a) >= 0

\* C18 witness: a withdrawal of the whole balance of the account is being
\* replayed by recover() after a stop; its Write has brought the account to
\* 0 and its Commit is still to come.
C18_Witness ==
    /\ pc = "wit_commit"
    /\ crashJournal # <<>>
    /\ read(pre, op.dst) = op.amt
    /\ read(journal, op.dst) = 0
    /\ IsWrite(journal[Len(journal)])

\* the model's two forms of handle() agree: appended step by step with no
\* stop, the journal is the one handle() run as a whole gives
StepwiseIsWhole ==
    (pc = "idle" /\ crashJournal = <<>> /\ lastOp.cls # "none") =>
        journal = handle(pre, lastOp, TRUE)

====
